---- MODULE Spec2Model ----
(***************************************************************************)
(* Toy RSA (src/src/lib.rs): genkey, encrypt, decrypt, modexp,             *)
(* mod_inverse and gcd.                                                    *)
(*                                                                         *)
(* Integer widths.  The program works on u32 primes, u64 arguments, i64    *)
(* signed temporaries and u128 accumulators.  TLC's integers are 32 bits   *)
(* wide, so the model keeps the ratios of the widths and scales them:      *)
(* a u32 has PrimeBits bits, a u64 and an i64 2*PrimeBits, and a u128 is   *)
(* four words of PrimeBits bits.  Every cast, wrap-around and narrowing    *)
(* is computed at the scaled width as the code does at its own.  EXP is    *)
(* the code's 65537: on arguments that fit the scaled widths and stay      *)
(* clear of their sign bit and narrowings, every operator returns what     *)
(* the code returns.  A totient of primes that EXP divides takes a prime   *)
(* of 20 bits and numbers beyond TLC's integers: genkey's loop is          *)
(* modelled once at that width too, on numbers held as sequences of words  *)
(* (SpecGenkey).  The one multiple of EXP the subtraction itself produces, *)
(* the wrapped 0 - 1 = 2^32 - 1 = 65535 * EXP of a release build, is       *)
(* carried as a mark on the totient (SubOneU32, InverseOfExp).             *)
(***************************************************************************)
EXTENDS Integers, Sequences, FiniteSets, TLC

VARIABLES
    checked,  \* overflow checks compiled in (debug profile) or not (release)
    pc,       \* position of the caller: genkey's loop, then encrypt, decrypt
    p, q,     \* the primes drawn in the current iteration of genkey
    key,      \* the pair genkey returned
    msg,      \* the plaintext handed to encrypt
    ct,       \* the ciphertext encrypt returned
    out,      \* the plaintext decrypt returned
    mx,       \* one call of modexp: its locals and its position
    mxArgs,   \* the arguments (x, y, m) of that call
    mi,       \* one call of mod_inverse: its locals and its position
    miArgs    \* the arguments (a, m) of that call

vars == <<checked, pc, p, q, key, msg, ct, out, mx, mxArgs, mi, miArgs>>

----------------------------------------------------------------------------
\* Bounds of the model.

\* Bits of a prime (u32 in the code); every other width derives from it.
PrimeBits == 9

\* rsa_prime() delivers the MaxPrimes smallest and the MaxPrimes largest
\* primes of its range.
MaxPrimes == 3

\* Inputs of modexp and mod_inverse are drawn from clusters of this radius
\* around 0, around the sign bit and below the largest value of the width.
MaxSmall == 3

----------------------------------------------------------------------------
\* Widths and casts.

U32Bits == PrimeBits

U64Bits == 2 * PrimeBits

U128Bits == 4 * PrimeBits

\* The base of the words a u128 is held in.
Word == 2 ^ PrimeBits

I64Min == -(2 ^ (U64Bits - 1))

I64Max == 2 ^ (U64Bits - 1) - 1

\* `v as i64` of a u64: the same bits read as two's complement.
AsI64(v) == IF v >= 2 ^ (U64Bits - 1) THEN v - 2 ^ U64Bits ELSE v

\* `t as u64` of an i64.
AsU64(t) == t % (2 ^ U64Bits)

\* The value an i64 operation leaves when it wraps around.
WrapI64(v) == AsI64(v % (2 ^ U64Bits))

InI64(v) == I64Min <= v /\ v <= I64Max

\* The u128 product of two values below 2^U64Bits, as four words, the
\* most significant first.  Such a product never exceeds a u128.
WideMul(a, b) ==
    LET a1 == a \div Word
        a0 == a % Word
        b1 == b \div Word
        b0 == b % Word
        c1 == ((a0 * b0) \div Word) + ((a0 * b1) % Word) + ((a1 * b0) % Word)
        c2 == (c1 \div Word) + ((a0 * b1) \div Word) + ((a1 * b0) \div Word)
                  + ((a1 * b1) % Word)
    IN  <<(c2 \div Word) + ((a1 * b1) \div Word), c2 % Word, c1 % Word,
          (a0 * b0) % Word>>

\* `w % m` of a u128 w held in four words, for 0 < m < 2^U64Bits.
WideMod(w, m) ==
    ((((((w[1] % m) * Word + w[2]) % m) * Word + w[3]) % m) * Word + w[4]) % m

Abs(v) == IF v < 0 THEN -v ELSE v

\* Rust's `/` on signed integers truncates toward zero.
TruncDiv(a, b) ==
    IF (a < 0) = (b < 0) THEN Abs(a) \div Abs(b) ELSE -(Abs(a) \div Abs(b))

None == [some |-> FALSE, val |-> 0]

Some(v) == [some |-> TRUE, val |-> v]

----------------------------------------------------------------------------
\* Fixed RSA encryption exponent (pub const EXP).
EXP == 65537

\* rsa_prime(): a prime of PrimeBits bits, 2^(PrimeBits-1) .. 2^PrimeBits - 1.
IsPrime(n) == n > 1 /\ \A d \in 2 .. (n - 1) : n % d # 0

PrimesOfRange ==
    {n \in (2 ^ (PrimeBits - 1)) .. (2 ^ PrimeBits - 1) : IsPrime(n)}

Primes ==
    {n \in PrimesOfRange :
        \/ Cardinality({r \in PrimesOfRange : r < n}) < MaxPrimes
        \/ Cardinality({r \in PrimesOfRange : r > n}) < MaxPrimes}

\* fn gcd(a, b): Euclid's loop.
RECURSIVE gcd(_, _)
gcd(a, b) == IF b # 0 THEN gcd(b, a % b) ELSE a

----------------------------------------------------------------------------
\* fn mod_inverse(a: u64, m: u64) -> Option<u64>

MiIdle ==
    [pc |-> "idle", a |-> 0, m |-> 0, t |-> 0, newt |-> 0, r |-> 0,
     newr |-> 0, res |-> None]

\* The casts, the early return and the initialisation of the locals.
MiEntry(a, m) ==
    IF AsI64(m) <= 0
    THEN [MiIdle EXCEPT !.pc = "returned", !.a = AsI64(a), !.m = AsI64(m)]
    ELSE [pc |-> "loop", a |-> AsI64(a), m |-> AsI64(m), t |-> 0, newt |-> 1,
          r |-> AsI64(m), newr |-> AsI64(a), res |-> None]

\* One iteration of `while newr != 0`.  An overflowing i64 operation panics
\* when overflow checks are compiled in and wraps otherwise; i64::MIN / -1
\* panics in every build.
MiIter(s, chk) ==
    IF s.r = I64Min /\ s.newr = -1
    THEN [s EXCEPT !.pc = "panicked"]
    ELSE LET quotient == TruncDiv(s.r, s.newr)
             qt == quotient * s.newt
             nt == s.t - WrapI64(qt)
             qr == quotient * s.newr
             nr == s.r - WrapI64(qr)
         IN  IF chk /\ ~(InI64(qt) /\ InI64(nt) /\ InI64(qr) /\ InI64(nr))
             THEN [s EXCEPT !.pc = "panicked"]
             ELSE [s EXCEPT !.t = s.newt, !.newt = WrapI64(nt),
                            !.r = s.newr, !.newr = WrapI64(nr)]

\* After the loop: the test of r, the normalisation of t and the return.
MiFinish(s, chk) ==
    IF s.r > 1
    THEN [s EXCEPT !.pc = "returned", !.res = None]
    ELSE LET t2 == IF s.t < 0 THEN s.t + s.m ELSE s.t
         IN  IF chk /\ ~InI64(t2)
             THEN [s EXCEPT !.pc = "panicked"]
             ELSE [s EXCEPT !.pc = "returned", !.t = WrapI64(t2),
                            !.res = Some(AsU64(WrapI64(t2)))]

MiStep(s, chk) == IF s.newr # 0 THEN MiIter(s, chk) ELSE MiFinish(s, chk)

RECURSIVE MiRun(_, _)
MiRun(s, chk) == IF s.pc = "loop" THEN MiRun(MiStep(s, chk), chk) ELSE s

\* The whole call: its final position ("returned" or "panicked") and result.
mod_inverse(a, m, chk) == MiRun(MiEntry(a, m), chk)

----------------------------------------------------------------------------
\* fn modexp(x: u64, y: u64, m: u64) -> u64

MxIdle == [pc |-> "idle", x |-> 0, y |-> 0, z |-> 0, m |-> 0, res |-> None]

\* Mutant of MxEntry: the test of m and the assert left out.
MxEntryNoZeroTest(x, y, m) ==
    [pc |-> "loop", x |-> x, y |-> y, z |-> 1, m |-> m, res |-> None]

\* The widening of the arguments and the test of m: error() prints the
\* message and exits the process, so the assert after it is never reached
\* with m = 0.
MxEntry(x, y, m) ==
    IF m = 0
    THEN [pc |-> "exited", x |-> x, y |-> y, z |-> 1, m |-> m, res |-> None]
    ELSE [pc |-> "loop", x |-> x, y |-> y, z |-> 1, m |-> m, res |-> None]

\* (a * b) % m in u128: "ok" is false for the panic of a remainder by
\* zero.  The operands are below 2^U64Bits (x is a u64 on entry and a
\* remainder of m afterwards, z is 1 or a remainder of m), so the product
\* fits the u128 in both build profiles.
MulMod(a, b, m) ==
    IF m = 0
    THEN [ok |-> FALSE, val |-> 0]
    ELSE [ok |-> TRUE, val |-> WideMod(WideMul(a, b), m)]

\* Mutant of MxIter: z is multiplied on the even bits of y.
MxIterEvenBit(s) ==
    LET zx == IF s.y % 2 = 0 THEN MulMod(s.z, s.x, s.m)
                             ELSE [ok |-> TRUE, val |-> s.z]
        xx == MulMod(s.x, s.x, s.m)
    IN  IF zx.ok /\ xx.ok
        THEN [s EXCEPT !.z = zx.val, !.y = s.y \div 2, !.x = xx.val]
        ELSE [s EXCEPT !.pc = "panicked"]

\* One iteration of `while y > 0`.
MxIter(s) ==
    LET zx == IF s.y % 2 = 1 THEN MulMod(s.z, s.x, s.m)
                             ELSE [ok |-> TRUE, val |-> s.z]
        xx == MulMod(s.x, s.x, s.m)
    IN  IF zx.ok /\ xx.ok
        THEN [s EXCEPT !.z = zx.val, !.y = s.y \div 2, !.x = xx.val]
        ELSE [s EXCEPT !.pc = "panicked"]

\* After the loop: z.try_into().unwrap() narrows the u128 to a u64.
MxFinish(s) ==
    IF s.z < 2 ^ U64Bits
    THEN [s EXCEPT !.pc = "returned", !.res = Some(s.z)]
    ELSE [s EXCEPT !.pc = "panicked"]

MxStep(s) == IF s.y > 0 THEN MxIter(s) ELSE MxFinish(s)

RECURSIVE MxRun(_)
MxRun(s) == IF s.pc = "loop" THEN MxRun(MxStep(s)) ELSE s

\* The whole call: its final position ("returned", "exited", "panicked")
\* and result.
modexp(x, y, m) == MxRun(MxEntry(x, y, m))

----------------------------------------------------------------------------
\* genkey, encrypt, decrypt.

\* `v - 1` on a u32: with v = 0 it panics when overflow checks are compiled
\* in and wraps to the largest u32 otherwise (wrapped: the value stands for
\* the code's 2^32 - 1).
SubOneU32(v, chk) ==
    IF v > 0 THEN [ok |-> TRUE, val |-> v - 1, wrapped |-> FALSE]
    ELSE IF chk THEN [ok |-> FALSE, val |-> 0, wrapped |-> FALSE]
    ELSE [ok |-> TRUE, val |-> 2 ^ U32Bits - 1, wrapped |-> TRUE]

\* (p - 1) as u64 * (q - 1) as u64, as genkey and decrypt compute it.
Totient(a, b, chk) ==
    LET a1 == SubOneU32(a, chk)
        b1 == SubOneU32(b, chk)
    IN  [ok |-> a1.ok /\ b1.ok, val |-> a1.val * b1.val,
         wrapped |-> a1.wrapped \/ b1.wrapped]

\* mod_inverse(EXP, totient), as genkey and decrypt call it.  A totient
\* with a wrapped factor is in the code a multiple of 2^32 - 1 =
\* 65535 * EXP below 2^64: it is 0 or has the sign bit set (`m <= 0`), or
\* Euclid's loop ends on r = EXP (`r > 1`); mod_inverse returns None on
\* all three paths.  The scaled 2^U32Bits - 1 is no multiple of EXP, so
\* the call is not run on it.
InverseOfExp(lambda, chk) ==
    IF lambda.wrapped THEN [pc |-> "returned", res |-> None]
    ELSE LET r == mod_inverse(EXP, lambda.val, chk)
         IN  [pc |-> r.pc, res |-> r.res]

\* One iteration of genkey's loop on the pair it drew: the match on
\* mod_inverse(EXP, totient), then `EXP < lambda_pq && gcd(..) == 1`.
GenkeyIter(a, b, chk) ==
    LET lambda == Totient(a, b, chk)
        inv == InverseOfExp(lambda, chk)
    IN  IF ~lambda.ok \/ inv.pc = "panicked" THEN "panicked"
        ELSE IF ~inv.res.some THEN "continue"
        ELSE IF EXP < lambda.val /\ gcd(EXP, lambda.val) = 1 THEN "return"
        ELSE "continue"

\* encrypt(key, msg): the final position and result of its modexp.
encrypt(n, m) == modexp(m, EXP, n)

\* decrypt(key, msg): the totient, unwrap of the inverse, modexp, narrowing
\* to u32.
decrypt(k, c, chk) ==
    LET lambda == Totient(k[1], k[2], chk)
        d == InverseOfExp(lambda, chk)
    IN  IF ~lambda.ok \/ d.pc # "returned" \/ ~d.res.some
        THEN [pc |-> "panicked", res |-> None]
        ELSE LET r == modexp(c, d.res.val, k[1] * k[2])
             IN  IF r.pc # "returned"
                 THEN [pc |-> r.pc, res |-> None]
                 ELSE IF r.res.val < 2 ^ U32Bits
                      THEN [pc |-> "returned", res |-> r.res]
                      ELSE [pc |-> "panicked", res |-> None]

----------------------------------------------------------------------------
\* The caller of the test: genkey, then encrypt and decrypt of one message.

Idle ==
    /\ pc = "idle" /\ p = 0 /\ q = 0 /\ key = <<0, 0>>
    /\ msg = 0 /\ ct = 0 /\ out = 0

Init ==
    /\ checked \in BOOLEAN
    /\ pc = "genkey" /\ p = 0 /\ q = 0 /\ key = <<0, 0>>
    /\ msg = 0 /\ ct = 0 /\ out = 0
    /\ mx = MxIdle /\ mxArgs = <<0, 0, 0>>
    /\ mi = MiIdle /\ miArgs = <<0, 0>>

\* let p = rsa_prime(); let q = rsa_prime();
GenkeyDraw ==
    /\ pc = "genkey"
    /\ \E a \in Primes, b \in Primes : p' = a /\ q' = b
    /\ pc' = "drawn"
    /\ UNCHANGED <<checked, key, msg, ct, out, mx, mxArgs, mi, miArgs>>

\* The rest of the iteration: continue, or return (p, q).
GenkeyTest ==
    /\ pc = "drawn"
    /\ LET verdict == GenkeyIter(p, q, checked)
       IN  /\ pc' = CASE verdict = "return" -> "returned"
                      [] verdict = "continue" -> "genkey"
                      [] OTHER -> "panicked"
           /\ key' = IF verdict = "return" THEN <<p, q>> ELSE key
    /\ UNCHANGED <<checked, p, q, msg, ct, out, mx, mxArgs, mi, miArgs>>

\* u32 messages: near 0, around the middle of the range and up to the
\* largest u32.
U32Inputs ==
    (0 .. MaxSmall)
        \cup ((2 ^ (U32Bits - 1) - MaxSmall) .. (2 ^ (U32Bits - 1) + MaxSmall))
        \cup ((2 ^ U32Bits - 1 - MaxSmall) .. (2 ^ U32Bits - 1))

\* encrypt(key.0 as u64 * key.1 as u64, message) for a u32 message.
Encrypt ==
    /\ pc = "returned"
    /\ \E m \in U32Inputs :
         LET r == encrypt(key[1] * key[2], m)
         IN  /\ msg' = m
             /\ pc' = IF r.pc = "returned" THEN "encrypted" ELSE r.pc
             /\ ct' = IF r.pc = "returned" THEN r.res.val ELSE ct
    /\ UNCHANGED <<checked, p, q, key, out, mx, mxArgs, mi, miArgs>>

\* decrypt(key, encrypted_message)
Decrypt ==
    /\ pc = "encrypted"
    /\ LET r == decrypt(key, ct, checked)
       IN  /\ pc' = IF r.pc = "returned" THEN "decrypted" ELSE r.pc
           /\ out' = IF r.pc = "returned" THEN r.res.val ELSE out
    /\ UNCHANGED <<checked, p, q, key, msg, ct, mx, mxArgs, mi, miArgs>>

Next == GenkeyDraw \/ GenkeyTest \/ Encrypt \/ Decrypt

Spec == Init /\ [][Next]_vars

----------------------------------------------------------------------------
\* One call of modexp, an iteration of its loop at a time.

\* u64 values the calls are made with: near 0, around the sign bit and up
\* to the largest u64.
U64Inputs ==
    (0 .. MaxSmall)
        \cup ((2 ^ (U64Bits - 1) - MaxSmall) .. (2 ^ (U64Bits - 1) + MaxSmall))
        \cup ((2 ^ U64Bits - 1 - MaxSmall) .. (2 ^ U64Bits - 1))

\* The calls of tests::test_modexp and tests::test_mod_inverse whose
\* arguments fit the model's width.
TestModexpCalls == {<<10, 9, 6>>, <<450, 768, 517>>}

TestModInverseCalls == {<<3, 11>>, <<6, 9>>, <<7, 0>>}

\* The calls genkey and decrypt make: mod_inverse(EXP, totient).
ModInverseCalls ==
    (U64Inputs \X U64Inputs)
        \cup {<<EXP, m>> : m \in U64Inputs}
        \cup TestModInverseCalls

\* Direct calls, and the calls encrypt makes: modexp(msg, EXP, key).
ModexpCalls ==
    (U64Inputs \X U64Inputs \X U64Inputs)
        \cup {<<m, EXP, n>> : m \in U32Inputs, n \in U64Inputs}
        \cup TestModexpCalls

InitModexp ==
    /\ checked \in BOOLEAN
    /\ Idle
    /\ mxArgs \in ModexpCalls
    /\ mx = [MxIdle EXCEPT !.pc = "called"]
    /\ mi = MiIdle /\ miArgs = <<0, 0>>

MxEnter ==
    /\ mx.pc = "called"
    /\ mx' = MxEntry(mxArgs[1], mxArgs[2], mxArgs[3])
    /\ UNCHANGED <<checked, pc, p, q, key, msg, ct, out, mxArgs, mi, miArgs>>

MxLoop ==
    /\ mx.pc = "loop" /\ mx.y > 0
    /\ mx' = MxIter(mx)
    /\ UNCHANGED <<checked, pc, p, q, key, msg, ct, out, mxArgs, mi, miArgs>>

MxReturn ==
    /\ mx.pc = "loop" /\ ~(mx.y > 0)
    /\ mx' = MxFinish(mx)
    /\ UNCHANGED <<checked, pc, p, q, key, msg, ct, out, mxArgs, mi, miArgs>>

NextModexp == MxEnter \/ MxLoop \/ MxReturn

SpecModexp == InitModexp /\ [][NextModexp]_vars

----------------------------------------------------------------------------
\* One call of mod_inverse, an iteration of its loop at a time.

InitModInverse ==
    /\ checked \in BOOLEAN
    /\ Idle
    /\ miArgs \in ModInverseCalls
    /\ mi = [MiIdle EXCEPT !.pc = "called"]
    /\ mx = MxIdle /\ mxArgs = <<0, 0, 0>>

MiEnter ==
    /\ mi.pc = "called"
    /\ mi' = MiEntry(miArgs[1], miArgs[2])
    /\ UNCHANGED <<checked, pc, p, q, key, msg, ct, out, mx, mxArgs, miArgs>>

MiLoop ==
    /\ mi.pc = "loop" /\ mi.newr # 0
    /\ mi' = MiIter(mi, checked)
    /\ UNCHANGED <<checked, pc, p, q, key, msg, ct, out, mx, mxArgs, miArgs>>

MiReturn ==
    /\ mi.pc = "loop" /\ ~(mi.newr # 0)
    /\ mi' = MiFinish(mi, checked)
    /\ UNCHANGED <<checked, pc, p, q, key, msg, ct, out, mx, mxArgs, miArgs>>

NextModInverse == MiEnter \/ MiLoop \/ MiReturn

SpecModInverse == InitModInverse /\ [][NextModInverse]_vars

----------------------------------------------------------------------------
\* genkey on primes of BigPrimeBits bits.  A totient that EXP divides
\* takes a prime p with EXP | p - 1, of 20 bits at least, and a u64 of
\* twice that width: beyond TLC's integers.  genkey's loop, with the
\* mod_inverse and the gcd it calls, is therefore modelled a second time on
\* numbers held as sequences of words; the u32 is BigPrimeBits wide, the
\* u64 and the i64 twice that.

BigPrimeBits == 20

BigU64Bits == 2 * BigPrimeBits

\* A natural number as its digits to the base Word, the least significant
\* first and the last one not 0; <<>> is 0.
RECURSIVE WordsOf(_)
WordsOf(n) == IF n = 0 THEN <<>> ELSE <<n % Word>> \o WordsOf(n \div Word)

RECURSIVE Trim(_)
Trim(b) ==
    IF b # <<>> /\ b[Len(b)] = 0 THEN Trim(SubSeq(b, 1, Len(b) - 1)) ELSE b

Digit(b, i) == IF i <= Len(b) THEN b[i] ELSE 0

Rest(b) == IF b = <<>> THEN <<>> ELSE Tail(b)

\* a + b + c for a carry c.
RECURSIVE AddDigits(_, _, _)
AddDigits(a, b, c) ==
    IF a = <<>> /\ b = <<>> THEN (IF c = 0 THEN <<>> ELSE <<c>>)
    ELSE LET s == Digit(a, 1) + Digit(b, 1) + c
         IN  <<s % Word>> \o AddDigits(Rest(a), Rest(b), s \div Word)

AddWords(a, b) == AddDigits(a, b, 0)

\* a - b - c for a borrow c, where a >= b + c; the digits are not trimmed.
RECURSIVE SubDigits(_, _, _)
SubDigits(a, b, c) ==
    IF a = <<>> THEN <<>>
    ELSE LET d == a[1] - Digit(b, 1) - c
         IN  <<d % Word>>
                 \o SubDigits(Tail(a), Rest(b), IF d < 0 THEN 1 ELSE 0)

SubWords(a, b) == Trim(SubDigits(a, b, 0))

\* a < b, on the digits i and below of numbers of the same length.
RECURSIVE LessDigits(_, _, _)
LessDigits(a, b, i) ==
    IF i = 0 THEN FALSE
    ELSE IF a[i] # b[i] THEN a[i] < b[i]
    ELSE LessDigits(a, b, i - 1)

LessWords(a, b) ==
    IF Len(a) # Len(b) THEN Len(a) < Len(b) ELSE LessDigits(a, b, Len(a))

\* a * Word.
Shift(a) == IF a = <<>> THEN <<>> ELSE <<0>> \o a

\* a * d + c for a digit d and a carry c; the digits are not trimmed.
RECURSIVE MulDigits(_, _, _)
MulDigits(a, d, c) ==
    IF a = <<>> THEN (IF c = 0 THEN <<>> ELSE <<c>>)
    ELSE LET s == a[1] * d + c
         IN  <<s % Word>> \o MulDigits(Tail(a), d, s \div Word)

RECURSIVE MulWords(_, _)
MulWords(a, b) ==
    IF a = <<>> \/ b = <<>> THEN <<>>
    ELSE AddWords(Trim(MulDigits(b, a[1], 0)), Shift(MulWords(Tail(a), b)))

\* The greatest digit d of lo .. hi with d * b <= r, where lo * b <= r.
RECURSIVE QuotientDigit(_, _, _, _)
QuotientDigit(lo, hi, b, r) ==
    IF lo = hi THEN lo
    ELSE LET mid == (lo + hi + 1) \div 2
         IN  IF LessWords(r, Trim(MulDigits(b, mid, 0)))
             THEN QuotientDigit(lo, mid - 1, b, r)
             ELSE QuotientDigit(mid, hi, b, r)

\* Quotient and remainder of a by b > 0: long division, a digit at a time.
RECURSIVE DivModWords(_, _)
DivModWords(a, b) ==
    IF a = <<>> THEN [quo |-> <<>>, rem |-> <<>>]
    ELSE LET d == DivModWords(Tail(a), b)
             r == Trim(<<a[1]>> \o d.rem)
             digit == QuotientDigit(0, Word - 1, b, r)
         IN  [quo |-> Trim(<<digit>> \o d.quo),
              rem |-> SubWords(r, Trim(MulDigits(b, digit, 0)))]

\* 2^n.
PowerOfTwo(n) ==
    [i \in 1 .. (n \div PrimeBits + 1) |->
        IF i = n \div PrimeBits + 1 THEN 2 ^ (n % PrimeBits) ELSE 0]

\* b % 2^n.
LowBits(b, n) ==
    LET top == n \div PrimeBits + 1
    IN  IF Len(b) < top THEN b
        ELSE Trim([i \in 1 .. top |->
                     IF i = top THEN b[i] % (2 ^ (n % PrimeBits)) ELSE b[i]])

\* An integer as sign and magnitude; zero is not negative.
Signed(neg, mag) == [neg |-> neg /\ mag # <<>>, mag |-> mag]

SignedOf(n) == Signed(n < 0, WordsOf(IF n < 0 THEN -n ELSE n))

SignedAdd(x, y) ==
    IF x.neg = y.neg THEN Signed(x.neg, AddWords(x.mag, y.mag))
    ELSE IF LessWords(x.mag, y.mag) THEN Signed(y.neg, SubWords(y.mag, x.mag))
    ELSE Signed(x.neg, SubWords(x.mag, y.mag))

SignedSub(x, y) == SignedAdd(x, Signed(~y.neg, y.mag))

SignedMul(x, y) == Signed(x.neg # y.neg, MulWords(x.mag, y.mag))

\* Rust's `/` on signed integers truncates toward zero.
SignedTruncDiv(x, y) == Signed(x.neg # y.neg, DivModWords(x.mag, y.mag).quo)

\* `v as i64` of a u64: the same bits read as two's complement.
BigAsI64(v) ==
    IF ~LessWords(v, PowerOfTwo(BigU64Bits - 1))
    THEN Signed(TRUE, SubWords(PowerOfTwo(BigU64Bits), v))
    ELSE Signed(FALSE, v)

\* `t as u64` of an i64.
BigAsU64(t) ==
    IF t.neg THEN SubWords(PowerOfTwo(BigU64Bits), t.mag) ELSE t.mag

\* i64::MIN <= v <= i64::MAX.
BigInI64(v) ==
    IF v.neg THEN ~LessWords(PowerOfTwo(BigU64Bits - 1), v.mag)
    ELSE LessWords(v.mag, PowerOfTwo(BigU64Bits - 1))

\* The value an i64 operation leaves when it wraps around.
BigWrapI64(v) ==
    LET low == LowBits(v.mag, BigU64Bits)
    IN  BigAsI64(IF v.neg /\ low # <<>>
                 THEN SubWords(PowerOfTwo(BigU64Bits), low)
                 ELSE low)

\* fn gcd(a, b): Euclid's loop, on u64.
RECURSIVE BigGcd(_, _)
BigGcd(a, b) == IF b # <<>> THEN BigGcd(b, DivModWords(a, b).rem) ELSE a

\* mod_inverse: the casts, the early return and the initialisation of the
\* locals.
BigMiEntry(a, m) ==
    IF BigAsI64(m).neg \/ m = <<>>
    THEN [pc |-> "returned", a |-> BigAsI64(a), m |-> BigAsI64(m),
          t |-> SignedOf(0), newt |-> SignedOf(0), r |-> SignedOf(0),
          newr |-> SignedOf(0), res |-> None]
    ELSE [pc |-> "loop", a |-> BigAsI64(a), m |-> BigAsI64(m),
          t |-> SignedOf(0), newt |-> SignedOf(1), r |-> BigAsI64(m),
          newr |-> BigAsI64(a), res |-> None]

\* mod_inverse: one iteration of `while newr != 0`.  An overflowing i64
\* operation panics when overflow checks are compiled in and wraps
\* otherwise; i64::MIN / -1 panics in every build.
BigMiIter(s, chk) ==
    IF s.r = Signed(TRUE, PowerOfTwo(BigU64Bits - 1)) /\ s.newr = SignedOf(-1)
    THEN [s EXCEPT !.pc = "panicked"]
    ELSE LET quotient == SignedTruncDiv(s.r, s.newr)
             qt == SignedMul(quotient, s.newt)
             nt == SignedSub(s.t, BigWrapI64(qt))
             qr == SignedMul(quotient, s.newr)
             nr == SignedSub(s.r, BigWrapI64(qr))
         IN  IF chk /\ ~(BigInI64(qt) /\ BigInI64(nt) /\ BigInI64(qr)
                             /\ BigInI64(nr))
             THEN [s EXCEPT !.pc = "panicked"]
             ELSE [s EXCEPT !.t = s.newt, !.newt = BigWrapI64(nt),
                            !.r = s.newr, !.newr = BigWrapI64(nr)]

\* mod_inverse after the loop: the test of r, the normalisation of t and
\* the return.
BigMiFinish(s, chk) ==
    IF ~s.r.neg /\ LessWords(<<1>>, s.r.mag)
    THEN [s EXCEPT !.pc = "returned", !.res = None]
    ELSE LET t2 == IF s.t.neg THEN SignedAdd(s.t, s.m) ELSE s.t
         IN  IF chk /\ ~BigInI64(t2)
             THEN [s EXCEPT !.pc = "panicked"]
             ELSE [s EXCEPT !.pc = "returned", !.t = BigWrapI64(t2),
                            !.res = Some(BigAsU64(BigWrapI64(t2)))]

BigMiStep(s, chk) ==
    IF s.newr.mag # <<>> THEN BigMiIter(s, chk) ELSE BigMiFinish(s, chk)

RECURSIVE BigMiRun(_, _)
BigMiRun(s, chk) ==
    IF s.pc = "loop" THEN BigMiRun(BigMiStep(s, chk), chk) ELSE s

\* mod_inverse(a, m) on u64 held as sequences of words: its final position
\* ("returned" or "panicked") and result.
BigModInverse(a, m, chk) == BigMiRun(BigMiEntry(a, m), chk)

\* (p - 1) as u64 * (q - 1) as u64.
BigTotient(a, b, chk) ==
    LET a1 == SubOneU32(a, chk)
        b1 == SubOneU32(b, chk)
    IN  [ok |-> a1.ok /\ b1.ok, wrapped |-> a1.wrapped \/ b1.wrapped,
         val |-> MulWords(WordsOf(a1.val), WordsOf(b1.val))]

\* mod_inverse(EXP, totient) in genkey; None on a totient with a wrapped
\* factor, as in InverseOfExp.
BigInverseOfExp(lambda, chk) ==
    IF lambda.wrapped THEN [pc |-> "returned", res |-> None]
    ELSE LET r == BigModInverse(WordsOf(EXP), lambda.val, chk)
         IN  [pc |-> r.pc, res |-> r.res]

\* Mutant of BigGenkeyIter: the pair is returned as soon as
\* EXP < lambda_pq; the match on the inverse and the gcd are left out.
BigGenkeyIterOrderOnly(a, b, chk) ==
    LET lambda == BigTotient(a, b, chk)
    IN  IF ~lambda.ok THEN "panicked"
        ELSE IF LessWords(WordsOf(EXP), lambda.val) THEN "return"
        ELSE "continue"

\* One iteration of genkey's loop on the pair it drew: the match on
\* mod_inverse(EXP, totient), then `EXP < lambda_pq && gcd(..) == 1`.
BigGenkeyIter(a, b, chk) ==
    LET lambda == BigTotient(a, b, chk)
        inv == BigInverseOfExp(lambda, chk)
    IN  IF ~lambda.ok \/ inv.pc = "panicked" THEN "panicked"
        ELSE IF ~inv.res.some THEN "continue"
        ELSE IF /\ LessWords(WordsOf(EXP), lambda.val)
                /\ BigGcd(WordsOf(EXP), lambda.val) = <<1>>
             THEN "return"
        ELSE "continue"

\* n has no divisor d with 1 < d and d * d <= n.
BigIsPrime(n) ==
    n > 1 /\ \A d \in 2 .. (2 ^ (BigPrimeBits \div 2 + 1)) :
                 d * d > n \/ n % d # 0

RECURSIVE PrimeFrom(_, _)
PrimeFrom(n, step) ==
    IF BigIsPrime(n) THEN n ELSE PrimeFrom(n + step, step)

\* The k primes that follow n upward (step 1) or downward (step -1).
RECURSIVE PrimesFrom(_, _, _)
PrimesFrom(n, step, k) ==
    IF k = 0 THEN {}
    ELSE LET f == PrimeFrom(n, step)
         IN  {f} \cup PrimesFrom(f + step, step, k - 1)

\* rsa_prime() delivers the MaxPrimes smallest and the MaxPrimes largest
\* primes of 2^(BigPrimeBits-1) .. 2^BigPrimeBits - 1, and the primes p of
\* that range with EXP | p - 1.
BigPrimes ==
    PrimesFrom(2 ^ (BigPrimeBits - 1), 1, MaxPrimes)
        \cup PrimesFrom(2 ^ BigPrimeBits - 1, -1, MaxPrimes)
        \cup {n \in {EXP * k + 1 : k \in 1 .. (2 ^ BigPrimeBits \div EXP)} :
                 /\ 2 ^ (BigPrimeBits - 1) <= n /\ n < 2 ^ BigPrimeBits
                 /\ BigIsPrime(n)}

\* let p = rsa_prime(); let q = rsa_prime();
BigGenkeyDraw ==
    /\ pc = "genkey"
    /\ \E a \in BigPrimes, b \in BigPrimes : p' = a /\ q' = b
    /\ pc' = "drawn"
    /\ UNCHANGED <<checked, key, msg, ct, out, mx, mxArgs, mi, miArgs>>

\* The rest of the iteration: continue, or return (p, q).
BigGenkeyTest ==
    /\ pc = "drawn"
    /\ LET verdict == BigGenkeyIter(p, q, checked)
       IN  /\ pc' = CASE verdict = "return" -> "returned"
                      [] verdict = "continue" -> "genkey"
                      [] OTHER -> "panicked"
           /\ key' = IF verdict = "return" THEN <<p, q>> ELSE key
    /\ UNCHANGED <<checked, p, q, msg, ct, out, mx, mxArgs, mi, miArgs>>

NextGenkey == BigGenkeyDraw \/ BigGenkeyTest

SpecGenkey == Init /\ [][NextGenkey]_vars

----------------------------------------------------------------------------
\* Reference notions the properties are stated with.

\* The greatest common divisor of two naturals.
RECURSIVE Gcd(_, _)
Gcd(a, b) == IF b = 0 THEN a ELSE Gcd(b, a % b)

Coprime(a, b) == Gcd(a, b) = 1

\* (x^y) mod m as the product of y factors x, multiplied out in two halves.
RECURSIVE NaiveModPow(_, _, _)
NaiveModPow(x, y, m) ==
    IF y = 0 THEN 1 % m
    ELSE IF y = 1 THEN x % m
    ELSE WideMod(WideMul(NaiveModPow(x, y \div 2, m),
                         NaiveModPow(x, y - (y \div 2), m)), m)

\* The exponents up to which the product of y factors is multiplied out.
NaiveLimit == 2 ^ (PrimeBits + 1)

\* (x^y) mod m for every y, by x^(2k) = (x^k)^2 and x^(2k+1) = (x^k)^2 * x.
RECURSIVE ModPow(_, _, _)
ModPow(x, y, m) ==
    IF y = 0 THEN 1 % m
    ELSE LET h == ModPow(x, y \div 2, m)
             hh == WideMod(WideMul(h, h), m)
         IN  IF y % 2 = 0 THEN hh ELSE WideMod(WideMul(hh, x % m), m)

\* The words of a u128 product hold a * b: it agrees with a * b modulo
\* every k below Word.
WideMulSound ==
    \A a \in U64Inputs, b \in U64Inputs, k \in {3, 5, 7, 11, 13, Word - 1} :
        WideMod(WideMul(a, b), k) = ((a % k) * (b % k)) % k

MxEnded == mx.pc \in {"returned", "exited", "panicked"}

MiEnded == mi.pc \in {"returned", "panicked"}

----------------------------------------------------------------------------
\* Properties.

\* The assertions of tests::test_modexp and tests::test_mod_inverse.
TestsOfTheSource ==
    /\ modexp(10, 9, 6).res = Some(4)
    /\ modexp(450, 768, 517).res = Some(34)
    /\ mod_inverse(3, 11, checked).res = Some(4)
    /\ mod_inverse(6, 9, checked) = [mod_inverse(6, 9, checked) EXCEPT
                                       !.pc = "returned", !.res = None]
    /\ mod_inverse(7, 0, checked) = [mod_inverse(7, 0, checked) EXCEPT
                                       !.pc = "returned", !.res = None]

\* No i64 or u128 operation overflows and no narrowing fails inside modexp
\* and mod_inverse, so the two build profiles behave alike.
NoArithmeticPanic == mx.pc # "panicked" /\ mi.pc # "panicked"

\* C1: for every key pair genkey returns (equal primes included) and every
\* message, decrypt(key, encrypt(p*q, m)) returns m and nothing aborts.
C1_RoundTrip ==
    /\ pc \notin {"panicked", "exited"}
    /\ pc = "decrypted" => out = msg

\* The round trip of C1 for the keys with two different primes.
RoundTripDistinctPrimes ==
    key[1] # key[2] =>
        /\ pc \notin {"panicked", "exited"}
        /\ pc = "decrypted" => out = msg

\* On arguments clear of both sign bits, mod_inverse on sequences of words
\* returns what mod_inverse on integers returns.
BigModInverseAgrees ==
    (/\ mi.pc = "returned"
     /\ miArgs[1] < 2 ^ (U64Bits - 1) /\ miArgs[2] < 2 ^ (U64Bits - 1)) =>
        LET big == BigModInverse(WordsOf(miArgs[1]), WordsOf(miArgs[2]),
                                 checked)
        IN  /\ big.pc = "returned"
            /\ big.res.some = mi.res.some
            /\ mi.res.some => big.res.val = WordsOf(mi.res.val)

\* C2: a pair genkey returns is the pair drawn in that iteration, both
\* primes of the supplier's range, with EXP < (p-1)(q-1) and
\* gcd(EXP, (p-1)(q-1)) = 1.  The totient is beyond TLC's integers, so both
\* conditions are stated on its factors: EXP < (p-1)(q-1) exactly when
\* EXP \div (q-1) < p-1, and EXP is coprime to a product exactly when it
\* is coprime to both factors.
C2_ReturnedKeyValid ==
    pc = "returned" =>
        /\ key = <<p, q>>
        /\ \A i \in 1 .. 2 :
              /\ BigIsPrime(key[i])
              /\ 2 ^ (BigPrimeBits - 1) <= key[i] /\ key[i] < 2 ^ BigPrimeBits
        /\ EXP \div (key[2] - 1) < key[1] - 1
        /\ Coprime(EXP, key[1] - 1) /\ Coprime(EXP, key[2] - 1)

\* genkey has returned a pair of different primes.
C2_Witness == pc = "returned" /\ key[1] # key[2]

\* genkey has drawn a pair whose totient EXP divides, small enough to be a
\* positive i64, and has gone back to draw again.
DivisibleTotientDiscarded ==
    /\ pc = "genkey" /\ p > 0 /\ key = <<0, 0>>
    /\ (p - 1) % EXP = 0
    /\ LessWords(MulWords(WordsOf(p - 1), WordsOf(q - 1)),
                 PowerOfTwo(BigU64Bits - 1))

\* C3: for all u64 a, m with m > 0 and gcd(a, m) = 1, mod_inverse(a, m)
\* returns Some(x) with (a * x) mod m = 1.
C3_InverseCorrect ==
    (MiEnded /\ miArgs[2] > 0 /\ Coprime(miArgs[1], miArgs[2])) =>
        /\ mi.pc = "returned"
        /\ mi.res.some
        /\ WideMod(WideMul(miArgs[1], mi.res.val), miArgs[2]) = 1

\* C4: for all u64 a, m with m = 0 or gcd(a, m) # 1, mod_inverse(a, m)
\* returns None.
C4_NoInverseIsNone ==
    (MiEnded /\ (miArgs[2] = 0 \/ ~Coprime(miArgs[1], miArgs[2]))) =>
        /\ mi.pc = "returned"
        /\ ~mi.res.some

\* C5: for all x, y and m > 1, modexp(x, y, m) returns (x^y) mod m, which is
\* 1 when y = 0.
C5_ModexpMatchesNaive ==
    (MxEnded /\ mxArgs[3] > 1) =>
        /\ mx.pc = "returned"
        /\ mx.res.some
        /\ mx.res.val = ModPow(mxArgs[1], mxArgs[2], mxArgs[3])
        /\ mxArgs[2] <= NaiveLimit =>
              mx.res.val = NaiveModPow(mxArgs[1], mxArgs[2], mxArgs[3])
        /\ mxArgs[2] = 0 => mx.res.val = 1

C5_Witness ==
    /\ mx.pc = "returned"
    /\ mxArgs[1] >= mxArgs[3] /\ mxArgs[3] > 2 ^ (U64Bits - 1)
    /\ mxArgs[2] > 2 ^ (U64Bits - 1)
    /\ mx.res.val > 1

\* C6: for all x, y and m # 0, the value modexp(x, y, m) returns is less
\* than m.
C6_ResultBelowModulus ==
    (mx.pc = "returned" /\ mxArgs[3] # 0) => mx.res.val < mxArgs[3]

\* The products the next iteration of modexp's loop computes fit in a u128:
\* their operands are below 2^U64Bits.
ProductsFit ==
    (mx.pc = "loop" /\ mx.y > 0) =>
        (mx.x < 2 ^ U64Bits /\ mx.z < 2 ^ U64Bits)

\* C7: for all x, y and m # 0, no product of modexp's loop exceeds a u128,
\* the narrowing of z to u64 does not fail, and the value returned is
\* (x^y) mod m.
C7_NoOverflowAndCorrect ==
    mxArgs[3] # 0 =>
        /\ ProductsFit
        /\ mx.pc # "panicked"
        /\ mx.pc = "returned" =>
              mx.res.val = ModPow(mxArgs[1], mxArgs[2], mxArgs[3])

\* C8: modexp with m = 0 exits the process before its loop runs and returns
\* no value, for every x and y; so does encrypt with public modulus 0.
C8_ZeroModulusFatal ==
    /\ (mxArgs[3] = 0 /\ mx.pc # "called") =>
          /\ mx.pc = "exited"
          /\ ~mx.res.some
          /\ mx.y = mxArgs[2] /\ mx.z = 1
    /\ \A m \in U32Inputs : encrypt(0, m).pc = "exited"

C8_Witness == mx.pc = "exited" /\ mxArgs[3] = 0 /\ mxArgs[2] > 0

\* C9: whenever mod_inverse(a, m) returns Some(x), x is in [0, m).
C9_InverseInRange ==
    (mi.pc = "returned" /\ mi.res.some) =>
        (0 <= mi.res.val /\ mi.res.val < miArgs[2])

\* C10: genkey discards a drawn pair only when (p-1)(q-1) is divisible by
\* EXP, and returns every other pair in the iteration that drew it.  The
\* pairs are those of the code's range, whose totient exceeds EXP.
C10_DiscardOnlyIfDivisible ==
    [][(/\ pc = "drawn"
        /\ EXP < (p - 1) * (q - 1)
        /\ ((p - 1) * (q - 1)) % EXP # 0) => pc' = "returned"]_vars

====
